---- MODULE Spec2Model ----
(***************************************************************************)
(* Commitment & payout engine of cliptions: generate_commitment,           *)
(* verify_round_commitments, calculate_payouts and process_round_payouts,  *)
(* working on the rounds file rounds/guesses.json.                         *)
(*                                                                         *)
(* Conventions.                                                            *)
(*  - A Python str is a sequence of one-character strings.                 *)
(*  - An optional value is a sequence of length <= 1: <<>> is None and     *)
(*    <<v>> is the value v.                                                *)
(*  - A float is an exact rational [num, den] in lowest terms (den > 0);   *)
(*    amounts stored in the rounds file are integers in units of 1e-6,     *)
(*    raw similarity scores integers in units of 1e-7.                     *)
(***************************************************************************)
EXTENDS Integers, Naturals, Sequences, FiniteSets, TLC

\* ------------------------------------------------------------------ bounds
MaxRank == 4
MaxPool == 3
MaxSim == 3
MaxStrLen == 2
MaxParticipants == 2
MaxAppends == 1
MaxComponent == 2
MaxBatch == 1
MaxRuns == 2
MaxTasks == 2
MaxAdds == 3

\* ------------------------------------------------------- exact arithmetic
RECURSIVE GCD(_, _)
GCD(a, b) == IF b = 0 THEN a ELSE GCD(b, a % b)

Abs(x) == IF x < 0 THEN 0 - x ELSE x

Rat(n, d) ==
    LET g == GCD(Abs(n), Abs(d))
        s == IF d < 0 THEN 0 - 1 ELSE 1
    IN  [num |-> (s * n) \div g, den |-> (s * d) \div g]

RatAdd(x, y) == Rat(x.num * y.den + y.num * x.den, x.den * y.den)
RatMul(x, y) == Rat(x.num * y.num, x.den * y.den)
RatDiv(x, y) == Rat(x.num * y.den, x.den * y.num)
RatLt(x, y) == x.num * y.den < y.num * x.den

RECURSIVE RatSum(_)
RatSum(s) == IF s = <<>> THEN Rat(0, 1) ELSE RatAdd(Head(s), RatSum(Tail(s)))

RECURSIVE SumSeq(_)
SumSeq(s) == IF s = <<>> THEN 0 ELSE Head(s) + SumSeq(Tail(s))

RECURSIVE Repeat(_, _)
Repeat(x, k) == IF k = 0 THEN <<>> ELSE <<x>> \o Repeat(x, k - 1)

\* ------------------------------------------------------ calculate_payouts
\* the closed form without its division by two
denominator_mut(total_guesses) == total_guesses * (total_guesses + 1)

\* sum(range(1, total_guesses + 1))
RECURSIVE denominator(_)
denominator(total_guesses) ==
    IF total_guesses = 0 THEN 0
    ELSE total_guesses + denominator(total_guesses - 1)

\* the grouping loop: entry k of ranked_results joins current_group when its
\* similarity equals current_similarity, else it closes current_group
RECURSIVE group_loop(_, _, _, _, _)
group_loop(ranked_results, k, groups, current_group, current_similarity) ==
    IF k > Len(ranked_results)
    THEN IF current_group # <<>> THEN Append(groups, current_group) ELSE groups
    ELSE LET similarity == ranked_results[k][2]
         IN  IF <<similarity>> # current_similarity
             THEN group_loop(ranked_results, k + 1,
                             IF current_group # <<>>
                             THEN Append(groups, current_group) ELSE groups,
                             <<ranked_results[k]>>, <<similarity>>)
             ELSE group_loop(ranked_results, k + 1, groups,
                             Append(current_group, ranked_results[k]),
                             current_similarity)

\* a grouping that closes the current group at every entry
RECURSIVE group_split_mut(_)
group_split_mut(ranked_results) ==
    IF ranked_results = <<>> THEN <<>>
    ELSE <<<<Head(ranked_results)>>>> \o group_split_mut(Tail(ranked_results))

\* a grouping that compares each similarity with the first one of the list
RECURSIVE group_first_mut(_, _, _, _)
group_first_mut(ranked_results, k, groups, current_group) ==
    IF k > Len(ranked_results)
    THEN IF current_group # <<>> THEN Append(groups, current_group) ELSE groups
    ELSE IF ranked_results[k][2] # ranked_results[1][2]
         THEN group_first_mut(ranked_results, k + 1,
                              IF current_group # <<>>
                              THEN Append(groups, current_group) ELSE groups,
                              <<ranked_results[k]>>)
         ELSE group_first_mut(ranked_results, k + 1, groups,
                              Append(current_group, ranked_results[k]))

tie_groups_split(ranked_results) == group_split_mut(ranked_results)
tie_groups_first(ranked_results) == group_first_mut(ranked_results, 1, <<>>, <<>>)

tie_groups(ranked_results) == group_loop(ranked_results, 1, <<>>, <<>>, <<>>)

\* sum(total_guesses - (position + i) for i in range(group_size))
RECURSIVE group_points(_, _, _)
group_points(total_guesses, position, group_size) ==
    IF group_size = 0 THEN 0
    ELSE (total_guesses - (position + (group_size - 1)))
         + group_points(total_guesses, position, group_size - 1)

\* the payout loop over the groups from group number k on
RECURSIVE payout_loop(_, _, _, _, _)
payout_loop(groups, k, position, total_guesses, prize_pool) ==
    IF k > Len(groups) THEN <<>>
    ELSE LET group_size == Len(groups[k])
             points == group_points(total_guesses, position, group_size)
             points_per_position == Rat(points, group_size)
             score == RatDiv(points_per_position,
                             Rat(denominator(total_guesses), 1))
         IN  Repeat(RatMul(score, Rat(prize_pool, 1)), group_size)
             \o payout_loop(groups, k + 1, position + group_size,
                            total_guesses, prize_pool)

calculate_payouts(ranked_results, prize_pool) ==
    payout_loop(tie_groups(ranked_results), 1, 0, Len(ranked_results),
                prize_pool)

\* ---------------------------------------------------- generate_commitment
Chars == {"a", "b"}
HexDigits == <<"0", "1", "2", "3", "4", "5", "6", "7",
               "8", "9", "a", "b", "c", "d", "e", "f">>
DigestLen == 64

Strs(n) == UNION {[1..k -> Chars] : k \in 0..n}

\* str.encode(): one byte per character of the model's alphabet
encode(str) == [k \in 1..Len(str) |-> IF str[k] = "a" THEN 1 ELSE 2]

\* the number of a byte string in the enumeration of all byte strings: an
\* injective map, standing for a collision-free SHA-256
RECURSIVE byte_index(_)
byte_index(data) ==
    IF data = <<>> THEN 0
    ELSE 2 * byte_index(SubSeq(data, 1, Len(data) - 1)) + data[Len(data)]

\* n as width hexadecimal digits, most significant first (n < 16^7 here, so
\* the digits above the seventh are zero)
hex_of(n, width) ==
    [k \in 1..width |->
        IF width - k >= 7 THEN HexDigits[1]
        ELSE HexDigits[((n \div (16 ^ (width - k))) % 16) + 1]]

\* hashlib.sha256(data).hexdigest()
sha256_hexdigest(data) == hex_of(byte_index(data), DigestLen)

Raised(err) == [error |-> err, value |-> <<>>]
Returned(val) == [error |-> "", value |-> val]

\* a digest that leaves the salt out of the hashed data
generate_commitment_nosalt(message, salt) ==
    IF salt = <<>>
    THEN Raised("ValueError")
    ELSE Returned(sha256_hexdigest(encode(message)))

\* no check of the salt
generate_commitment_nocheck(message, salt) ==
    Returned(sha256_hexdigest(encode(message) \o encode(salt)))

generate_commitment(message, salt) ==
    IF salt = <<>>
    THEN Raised("ValueError")
    ELSE Returned(sha256_hexdigest(encode(message) \o encode(salt)))

\* CommitmentSubmissionTask.generate_commitment_hash, the miner's side
generate_commitment_hash(prediction, salt) ==
    IF salt = <<>>
    THEN Raised("ValueError")
    ELSE Returned(sha256_hexdigest(encode(prediction) \o encode(salt)))


\* ------------------------------------------------ verify_round_commitments
None == <<>>
Some(v) == <<v>>

\* Python truthiness of an optional str: neither None nor ""
Truthy(opt) == opt # None /\ opt[1] # <<>>

\* one pass of the loop body with the skip also clearing the flag
verify_participant_mut(participant) ==
    IF ~Truthy(participant.guess) \/ ~Truthy(participant.salt)
    THEN [participant EXCEPT !.valid = FALSE]
    ELSE [participant EXCEPT !.valid =
             (generate_commitment(participant.guess[1],
                                  participant.salt[1]).value
                  = participant.commitment)]

\* one pass of the loop body with a mismatch also zeroing the payout
verify_participant_zero(participant) ==
    IF ~Truthy(participant.guess) \/ ~Truthy(participant.salt)
    THEN participant
    ELSE IF generate_commitment(participant.guess[1],
                                participant.salt[1]).value
                = participant.commitment
         THEN [participant EXCEPT !.valid = TRUE]
         ELSE [participant EXCEPT !.valid = FALSE, !.payout = Some(0)]

\* one pass of the loop body: the participant as the loop leaves it
verify_participant(participant) ==
    IF ~Truthy(participant.guess) \/ ~Truthy(participant.salt)
    THEN participant
    ELSE [participant EXCEPT !.valid =
             (generate_commitment(participant.guess[1],
                                  participant.salt[1]).value
                  = participant.commitment)]

\* all_valid without the assignment in the skip branch
verify_all_valid_mut(participants) ==
    \A k \in 1..Len(participants) :
        (Truthy(participants[k].guess) /\ Truthy(participants[k].salt)) =>
            verify_participant(participants[k]).valid

\* all_valid at the end of the loop: no pass skipped and none mismatched
verify_all_valid(participants) ==
    \A k \in 1..Len(participants) :
        /\ Truthy(participants[k].guess)
        /\ Truthy(participants[k].salt)
        /\ verify_participant(participants[k]).valid

\* a dump that is skipped when the call is about to return false
verify_dump_mut(current, round_data, all_valid) ==
    IF all_valid THEN round_data ELSE current

\* lines 61-63: the file after the dump of round_data, whatever all_valid is
verify_dump(current, round_data, all_valid) == round_data

\* -------------------------------------------------- process_round_payouts
\* input(...).lower().startswith('y')
lower(c) == IF c = "Y" THEN "y" ELSE IF c = "N" THEN "n" ELSE c

\* any non-empty answer counts as a yes
confirmed_mut(answer) == answer # <<>>

confirmed(answer) == answer # <<>> /\ lower(answer[1]) = "y"

MaxGuessChars == 300

\* scoring_versions.json as the model fixes it: version entries in file order
VersionsFile ==
    <<[version |-> "v1", applied_to_rounds |-> {"round0"},
       use_baseline_adjustment |-> Some(FALSE)],
      [version |-> "v2", applied_to_rounds |-> {"round1", "round2"},
       use_baseline_adjustment |-> Some(TRUE)]>>

\* the loop returns the legacy validator at the first entry that lists the
\* round and does not use baseline adjustment; else the default validator
get_validator_for_round(round_id, versions) ==
    IF \E k \in 1..Len(versions) :
          /\ round_id \in versions[k].applied_to_rounds
          /\ ~(versions[k].use_baseline_adjustment = Some(TRUE))
    THEN "LegacyScoreValidator"
    ELSE "ScoreValidator"

Whitespace == {" "}

\* str.strip(): the text between its first and last non-whitespace character
strip(str) ==
    LET inner == {k \in 1..Len(str) : str[k] \notin Whitespace}
    IN  IF inner = {} THEN <<>>
        ELSE SubSeq(str, CHOOSE k \in inner : \A j \in inner : k <= j,
                         CHOOSE k \in inner : \A j \in inner : k >= j)

\* the gate without the whitespace test
validate_guess_nostrip(validator, guess) ==
    /\ Truthy(guess)
    /\ validator = "ScoreValidator" => Len(guess[1]) <= MaxGuessChars

\* validate_guess of the two validators: the legacy one has no length limit
validate_guess(validator, guess) ==
    /\ Truthy(guess)
    /\ Len(strip(guess[1])) > 0
    /\ validator = "ScoreValidator" => Len(guess[1]) <= MaxGuessChars

\* validator.calculate_adjusted_score with the embedder's similarity emb
calculate_adjusted_score(validator, emb, guess) ==
    IF ~validate_guess(validator, guess) THEN 0 ELSE emb[guess[1]]

\* the texts calculate_adjusted_score hands to embedder.get_text_embedding
embedder_calls(validator, guess) ==
    IF ~validate_guess(validator, guess) THEN <<>> ELSE <<guess[1]>>

\* truncation instead of rounding
round6_floor(num, den) == num \div den

\* rounding up instead of to the nearest
round6_ceil(num, den) == (num + den - 1) \div den

\* round(x, 6) of the rational num/den of 1e-6 units: nearest, ties to even
round6(num, den) ==
    LET q == num \div den
        r == num % den
    IN  IF 2 * r < den THEN q
        ELSE IF 2 * r > den THEN q + 1
        ELSE IF q % 2 = 0 THEN q ELSE q + 1

\* participant['payout'] = round(float(payout), 6) for each payout, the
\* prize pool counted in 1e-6 units
store_payouts(payouts) ==
    [k \in 1..Len(payouts) |-> round6(payouts[k].num, payouts[k].den)]

\* list.sort(key=lambda x: x[1], reverse=True): stable, descending
RECURSIVE sort_insert(_, _)
sort_insert(sorted, x) ==
    IF sorted = <<>> THEN <<x>>
    ELSE IF Head(sorted)[2] >= x[2]
         THEN <<Head(sorted)>> \o sort_insert(Tail(sorted), x)
         ELSE <<x>> \o sorted

RECURSIVE sort_desc(_, _)
sort_desc(items, k) ==
    IF k = 0 THEN <<>> ELSE sort_insert(sort_desc(items, k - 1), items[k])

\* the indices of the participants the scoring loop takes, in list order
RECURSIVE valid_indices(_, _)
valid_indices(participants, k) ==
    IF k > Len(participants) THEN <<>>
    ELSE (IF participants[k].valid THEN <<k>> ELSE <<>>)
         \o valid_indices(participants, k + 1)

\* lines 101-110: the caller's prize pool when given, else the stored one
resolve_prize_pool_mut(prize_pool, existing) ==
    IF existing = None THEN prize_pool ELSE existing

resolve_prize_pool(prize_pool, existing) ==
    IF prize_pool = None THEN existing ELSE prize_pool

\* a dump of the results that does not look at save_to_file
dumps_results_mut(any_valid, save_to_file) == any_valid

\* lines 157 and 170: the results are dumped when there is a valid
\* participant and save_to_file is set
dumps_results(any_valid, save_to_file) == any_valid /\ save_to_file

\* lines 144-167 on the participants of the reloaded round: valid
\* participants get a score, are sorted, and get their payout
score_and_pay(participants, validator, emb, prize_pool) ==
    LET idx == valid_indices(participants, 1)
        raw(i) == calculate_adjusted_score(validator, emb, participants[i].guess)
        valid_participants ==
            sort_desc([j \in 1..Len(idx) |-> <<idx[j], raw(idx[j])>>], Len(idx))
        ranked_guesses ==
            [j \in 1..Len(valid_participants) |->
                <<participants[valid_participants[j][1]].guess,
                  valid_participants[j][2]>>]
        pay == calculate_payouts(ranked_guesses, prize_pool)
        rank_of(i) == CHOOSE j \in 1..Len(valid_participants) :
                          valid_participants[j][1] = i
    IN  [i \in 1..Len(participants) |->
            IF participants[i].valid
            THEN [participants[i] EXCEPT
                     !.score = Some(round6(raw(i), 10)),
                     !.payout = Some(round6(pay[rank_of(i)].num,
                                            pay[rank_of(i)].den))]
            ELSE participants[i]]

\* ---------------------------------------------------------------- state
VARIABLES
    cp_ranked,      \* calculate_payouts: argument ranked_results
    cp_pool,        \* calculate_payouts: argument prize_pool
    cp_out,         \* calculate_payouts: <<>> before the call, <<payouts>> after
    cp_stored,      \* <<>> or <<the payout fields stored for the entries>>
    gc_message,     \* the miner's message
    gc_salt,        \* the miner's salt
    gc_hash,        \* <<>> or <<result of generate_commitment_hash>>
    gc_reveal,      \* <<>> or <<message, salt>> handed to the validator
    gc_check,       \* <<>> or <<result of the validator's generate_commitment>>
    store,          \* rounds/guesses.json: round id -> round record
    file_exists,    \* whether rounds/guesses.json exists
    pc,             \* where the running command stands
    caller,         \* "prp": process_round_payouts, "cli": verify_commitments.py
    args,           \* the arguments of the running command
    run,            \* locals of process_round_payouts
    ver,            \* locals of verify_round_commitments
    writer,         \* the upstream process calling add_participant
    hist,           \* history: the file when the command started, appends
                    \* made, who wrote the file last, dumps of the payout run
    reg_versions,   \* scoring_versions.json: version entries in file order
    reg_appended,   \* number of version entries appended to the file
    reg_calls,      \* the calls of get_validator_for_round made so far
    sc_validator,   \* the validator calculate_adjusted_score is called on
    sc_guess,       \* its argument guess
    sc_result,      \* <<>> or <<[score, embedded]>> once it has returned
    bl,             \* a call of BaselineAdjustedStrategy.calculate_score:
                    \* its arguments and <<>> or <<its result>>
    par,            \* process_all_rounds: the rounds file, the target images,
                    \* the locals of the running call and its history
    jda,            \* one JsonDataAccess instance: its file, its lock and
                    \* the tasks calling its mutating operations
    registry        \* one PlayerRegistry: its fields, and the add_player
                    \* calls made on it

cp_vars == <<cp_ranked, cp_pool, cp_out, cp_stored>>
gc_vars == <<gc_message, gc_salt, gc_hash, gc_reveal, gc_check>>
rp_vars == <<store, file_exists, pc, caller, args, run, ver, writer, hist>>
reg_vars == <<reg_versions, reg_appended, reg_calls>>
sc_vars == <<sc_validator, sc_guess, sc_result>>
ext_vars == <<bl, par, jda, registry>>
aux_vars == <<reg_vars, sc_vars, ext_vars>>
vars == <<cp_vars, gc_vars, rp_vars, aux_vars>>

cp_idle == cp_ranked = <<>> /\ cp_pool = 0 /\ cp_out = <<>> /\ cp_stored = <<>>
gc_idle ==
    /\ gc_message = <<>> /\ gc_salt = <<>> /\ gc_hash = <<>>
    /\ gc_reveal = <<>> /\ gc_check = <<>>

reg_idle == reg_versions = <<>> /\ reg_appended = 0 /\ reg_calls = <<>>
sc_idle == sc_validator = "" /\ sc_guess = <<>> /\ sc_result = <<>>
NoScoreCall ==
    [image_features |-> <<>>, text_features |-> <<>>,
     baseline_features |-> <<>>, out |-> <<>>]
bl_idle == bl = NoScoreCall
NoBatch ==
    [file |-> <<>>, file_exists |-> FALSE, images |-> <<>>, pc |-> "off",
     runs |-> 0, save_to_file |-> TRUE, verify_commitments |-> TRUE,
     round_data |-> <<>>, k |-> 0, calls |-> <<>>, exit |-> "",
     file0 |-> <<>>, saved |-> FALSE]
par_idle == par = NoBatch
NoLock == [holder |-> 0, waiters |-> <<>>]
NoInstance == [file |-> <<>>, file0 |-> <<>>, lock |-> NoLock, tasks |-> <<>>]
jda_idle == jda = NoInstance
NoRegistry ==
    [entry_fee |-> 0, platform_fee_percent |-> 0, players |-> <<>>,
     prize_pool |-> 0, platform_fees |-> 0, calls |-> <<>>]
registry_idle == registry = NoRegistry
ext_idle == bl_idle /\ par_idle /\ jda_idle /\ registry_idle
aux_idle == reg_idle /\ sc_idle /\ ext_idle

NoArgs ==
    [round_id |-> "", prize_pool |-> None, save_to_file |-> TRUE,
     verify_commitments |-> TRUE]
NoRun ==
    [prize_pool |-> None, round_data |-> None, prompted |-> FALSE,
     answer |-> None, validator |-> None, emb |-> None, exit |-> ""]
NoVer == [read |-> None, out |-> None, ret |-> None]
NoWriter == [pc |-> "idle", data |-> None, count |-> 0]
NoHist ==
    [store0 |-> <<>>, appended |-> {}, last_write |-> "", persists |-> 0,
     verify_writes |-> 0]

rp_idle ==
    /\ store = <<>> /\ file_exists = FALSE /\ pc = "off" /\ caller = ""
    /\ args = NoArgs /\ run = NoRun /\ ver = NoVer /\ writer = NoWriter
    /\ hist = NoHist

\* ------------------------------------------- calculate_payouts as a call
\* rankings as calculate_rankings returns them: sorted(..., reverse=True)
IsRanked(rr) == \A k \in 1..(Len(rr) - 1) : rr[k][2] >= rr[k + 1][2]

RankedLists ==
    {rr \in UNION {[1..n -> {<<"a">>} \X (1..MaxSim)] : n \in 0..MaxRank} :
        IsRanked(rr)}

InitPayout ==
    /\ cp_ranked \in RankedLists
    /\ cp_pool \in (0 - 1)..MaxPool
    /\ cp_out = <<>>
    /\ cp_stored = <<>>
    /\ gc_idle
    /\ rp_idle
    /\ aux_idle

CalculatePayouts ==
    /\ cp_out = <<>>
    /\ cp_out' = <<calculate_payouts(cp_ranked, cp_pool)>>
    /\ UNCHANGED <<cp_ranked, cp_pool, cp_stored, gc_vars, rp_vars, aux_vars>>

\* the payout loop of process_round_payouts on the returned payouts
StorePayouts ==
    /\ cp_out # <<>>
    /\ cp_stored = <<>>
    /\ cp_stored' = <<store_payouts(cp_out[1])>>
    /\ UNCHANGED <<cp_ranked, cp_pool, cp_out, gc_vars, rp_vars, aux_vars>>

NextPayout == CalculatePayouts \/ StorePayouts

SpecPayout == InitPayout /\ [][NextPayout]_vars

\* ----------------------------------------- generate_commitment as a call
InitCommit ==
    /\ gc_message \in Strs(MaxStrLen)
    /\ gc_salt \in Strs(MaxStrLen)
    /\ gc_hash = <<>>
    /\ gc_reveal = <<>>
    /\ gc_check = <<>>
    /\ cp_idle
    /\ rp_idle
    /\ aux_idle

\* the miner commits: generate_commitment_hash(prediction, salt)
Commit ==
    /\ gc_hash = <<>>
    /\ gc_hash' = <<generate_commitment_hash(gc_message, gc_salt)>>
    /\ UNCHANGED <<gc_message, gc_salt, gc_reveal, gc_check, cp_vars, rp_vars, aux_vars>>

\* the validator recomputes generate_commitment over a revealed pair
Check ==
    /\ gc_hash # <<>>
    /\ gc_check = <<>>
    /\ \E m \in Strs(MaxStrLen), s \in Strs(MaxStrLen) :
          /\ gc_reveal' = <<m, s>>
          /\ gc_check' = <<generate_commitment(m, s)>>
    /\ UNCHANGED <<gc_message, gc_salt, gc_hash, cp_vars, rp_vars, aux_vars>>

NextCommit == Commit \/ Check

SpecCommit == InitCommit /\ [][NextCommit]_vars


\* ------------------------------------------------ the rounds file and runs
RoundIds == {"round1", "round2"}
Answers == {<<"Y", "e", "s">>, <<"n", "o">>, <<>>}
RawScores == {6, 14}
PrizePoolArgs == {None, Some(10)}
StoredPrizePools == {None, Some(12)}

\* the (guess, salt) every participant of the model committed to
Committed == generate_commitment(<<"a">>, <<"b">>).value

Participant(username, guess, salt, valid) ==
    [username |-> username, guess |-> guess, salt |-> salt,
     commitment |-> Committed, valid |-> valid,
     score |-> None, payout |-> None]

\* revealed and matching, revealed and mismatching, guess not revealed,
\* salt empty
Reveals ==
    {<<Some(<<"a">>), Some(<<"b">>)>>, <<Some(<<"b">>), Some(<<"b">>)>>,
     <<None, Some(<<"b">>)>>, <<Some(<<"a">>), Some(<<>>)>>}

Username(k) == <<"u", k>>
WriterName(k) == <<"w", k>>

ParticipantLists ==
    UNION {[1..n -> Reveals \X BOOLEAN] : n \in 0..MaxParticipants}

InitialParticipants(choice) ==
    [k \in 1..Len(choice) |->
        Participant(Username(k), choice[k][1][1], choice[k][1][2],
                    choice[k][2])]

Round(participants, prize_pool) ==
    [participants |-> participants, prize_pool |-> prize_pool,
     total_payout |-> None]

Init ==
    /\ cp_idle
    /\ gc_idle
    /\ aux_idle
    /\ file_exists \in BOOLEAN
    /\ IF file_exists
       THEN \E choice \in ParticipantLists, stored \in StoredPrizePools :
               store = [r \in {"round1"} |->
                           Round(InitialParticipants(choice), stored)]
       ELSE store = <<>>
    /\ pc = "idle"
    /\ caller = ""
    /\ args = NoArgs
    /\ run = NoRun
    /\ ver = NoVer
    /\ writer = NoWriter
    /\ hist = NoHist

Exit(reason) ==
    /\ pc' = "exited"
    /\ run' = [run EXCEPT !.exit = reason]

\* process_round_payouts, from the call to the participants check
ProcessRoundPayouts ==
    /\ pc = "idle"
    /\ \E round_id \in RoundIds, prize_pool \in PrizePoolArgs,
          save_to_file \in BOOLEAN, verify_commitments \in BOOLEAN,
          image_exists \in BOOLEAN :
          /\ args' = [round_id |-> round_id, prize_pool |-> prize_pool,
                      save_to_file |-> save_to_file,
                      verify_commitments |-> verify_commitments]
          /\ caller' = "prp"
          /\ hist' = [hist EXCEPT !.store0 = store]
          /\ LET resolved == resolve_prize_pool(prize_pool,
                                                store[round_id].prize_pool)
                 loaded == [run EXCEPT
                               !.prize_pool = resolved,
                               !.round_data = Some(
                                   IF prize_pool = None THEN store
                                   ELSE [store EXCEPT
                                            ![round_id].prize_pool = prize_pool])]
             IN  IF ~file_exists THEN Exit("no_file")
                 ELSE IF round_id \notin DOMAIN store
                      THEN Exit("round_not_found")
                 ELSE IF resolved = None THEN Exit("no_prize_pool")
                 ELSE IF ~image_exists
                      THEN /\ pc' = "exited"
                           /\ run' = [loaded EXCEPT !.exit = "no_target_image"]
                 ELSE IF store[round_id].participants = <<>>
                      THEN /\ pc' = "exited"
                           /\ run' = [loaded EXCEPT !.exit = "no_participants"]
                 ELSE /\ pc' = IF verify_commitments THEN "verify" ELSE "reload"
                      /\ run' = loaded
    /\ UNCHANGED <<store, file_exists, ver, writer, cp_vars, gc_vars, aux_vars>>

\* python3 verify_commitments.py <round_id>
VerifyCommand ==
    /\ pc = "idle"
    /\ \E round_id \in RoundIds :
          args' = [NoArgs EXCEPT !.round_id = round_id]
    /\ caller' = "cli"
    /\ pc' = "verify"
    /\ hist' = [hist EXCEPT !.store0 = store]
    /\ UNCHANGED <<store, file_exists, run, ver, writer, cp_vars, gc_vars, aux_vars>>

AfterVerify == IF caller = "prp" THEN "confirm" ELSE "done"

\* verify_round_commitments up to the end of its loop
VerifyRead ==
    /\ pc = "verify"
    /\ IF ~file_exists
       THEN /\ ver' = [read |-> None, out |-> None, ret |-> Some(FALSE)]
            /\ pc' = AfterVerify
       ELSE IF args.round_id \notin DOMAIN store
               \/ store[args.round_id].participants = <<>>
       THEN /\ ver' = [read |-> Some(store), out |-> None, ret |-> Some(FALSE)]
            /\ pc' = AfterVerify
       ELSE /\ ver' = [read |-> Some(store),
                       out |-> Some([store EXCEPT ![args.round_id].participants =
                                  [k \in 1..Len(@) |-> verify_participant(@[k])]]),
                       ret |-> None]
            /\ pc' = "verify_write"
    /\ UNCHANGED <<store, file_exists, caller, args, run, writer, hist,
                   cp_vars, gc_vars, aux_vars>>

\* verify_round_commitments: the dump of round_data and the return
VerifyWrite ==
    /\ pc = "verify_write"
    /\ store' = verify_dump(store, ver.out[1],
                   verify_all_valid(ver.read[1][args.round_id].participants))
    /\ ver' = [ver EXCEPT !.ret =
                  Some(verify_all_valid(ver.read[1][args.round_id].participants))]
    /\ pc' = AfterVerify
    /\ hist' = [hist EXCEPT !.last_write = "verify", !.verify_writes = @ + 1]
    /\ UNCHANGED <<file_exists, caller, args, run, writer,
                   cp_vars, gc_vars, aux_vars>>

\* process_round_payouts: the continue/abort question after verification
Confirm ==
    /\ pc = "confirm"
    /\ IF ver.ret[1]
       THEN /\ pc' = "reload"
            /\ UNCHANGED run
       ELSE \E answer \in Answers :
               IF confirmed(answer)
               THEN /\ pc' = "reload"
                    /\ run' = [run EXCEPT !.prompted = TRUE,
                                          !.answer = Some(answer)]
               ELSE /\ pc' = "exited"
                    /\ run' = [run EXCEPT !.prompted = TRUE,
                                          !.answer = Some(answer),
                                          !.exit = "declined"]
    /\ UNCHANGED <<store, file_exists, caller, args, ver, writer, hist,
                   cp_vars, gc_vars, aux_vars>>

\* any participant reaches the text embedder
embeds_any(participants, validator) == participants # <<>>

\* a valid participant whose guess passes the gate reaches the text embedder
embeds(participants, validator) ==
    \E k \in 1..Len(participants) :
        /\ participants[k].valid
        /\ validate_guess(validator, participants[k].guess)

\* the guesses the scoring loop hands to the text embedder
embedded_guesses(participants, validator) ==
    {participants[k].guess[1] :
        k \in {j \in 1..Len(participants) :
                  /\ participants[j].valid
                  /\ validate_guess(validator, participants[j].guess)}}

\* process_round_payouts from the reload to the update of round_data; the
\* embedder gives each guess it is handed a similarity; it may raise on the
\* target image (exit "error") or on a guess (exit "score_error")
ScoreAndPay ==
    /\ pc = "reload"
    /\ \E outcome \in {"ok", "error", "score_error"},
          emb \in [embedded_guesses(
                      store[args.round_id].participants,
                      get_validator_for_round(args.round_id, VersionsFile))
                  -> RawScores] :
          LET participants == store[args.round_id].participants
              validator == get_validator_for_round(args.round_id,
                                                   VersionsFile)
              scored == \E k \in 1..Len(participants) :
                            participants[k].valid
          IN  IF outcome # "ok"
              THEN /\ outcome = "score_error" =>
                          embeds(participants, validator)
                   /\ pc' = "exited"
                   /\ run' = [run EXCEPT
                             !.round_data = Some(store),
                             !.validator = Some(validator),
                             !.exit = outcome]
              ELSE /\ run' = [run EXCEPT
                         !.validator = Some(validator),
                         !.emb = Some(emb),
                         !.round_data = Some(
                            IF scored
                            THEN [store EXCEPT
                                    ![args.round_id].participants =
                                        score_and_pay(participants, validator,
                                                      emb, run.prize_pool[1]),
                                    ![args.round_id].total_payout =
                                        run.prize_pool]
                            ELSE store)]
                   /\ pc' = IF dumps_results(scored, args.save_to_file)
                            THEN "persist" ELSE "done"
    /\ UNCHANGED <<store, file_exists, caller, args, ver, writer, hist,
                   cp_vars, gc_vars, aux_vars>>

\* process_round_payouts: the dump of round_data
Persist ==
    /\ pc = "persist"
    /\ store' = run.round_data[1]
    /\ pc' = "done"
    /\ hist' = [hist EXCEPT !.last_write = "persist", !.persists = @ + 1]
    /\ UNCHANGED <<file_exists, caller, args, run, ver, writer,
                   cp_vars, gc_vars, aux_vars>>

\* JsonDataAccess.add_participant on the same file: the read.  The model
\* follows the calls that start while a command runs: a call that returned
\* before the command started is an initial file with one more participant
AddParticipantRead ==
    /\ writer.pc = "idle"
    /\ pc \notin {"idle", "done", "exited"}
    /\ writer.count < MaxAppends
    /\ writer' = IF file_exists /\ "round1" \in DOMAIN store
                 THEN [writer EXCEPT !.pc = "write", !.data = Some(store)]
                 ELSE [writer EXCEPT !.count = @ + 1]
    /\ UNCHANGED <<store, file_exists, pc, caller, args, run, ver, hist,
                   cp_vars, gc_vars, aux_vars>>

\* JsonDataAccess.add_participant: the append and the write
AddParticipantWrite ==
    /\ writer.pc = "write"
    /\ LET name == WriterName(writer.count + 1)
       IN  /\ store' = [writer.data[1] EXCEPT !["round1"].participants =
                           Append(@, Participant(name, Some(<<"a">>),
                                                 Some(<<"b">>), TRUE))]
           /\ hist' = [hist EXCEPT !.appended = @ \cup {name},
                                   !.last_write = "add_participant"]
    /\ writer' = [pc |-> "idle", data |-> None, count |-> writer.count + 1]
    /\ UNCHANGED <<file_exists, pc, caller, args, run, ver, cp_vars, gc_vars, aux_vars>>

Next ==
    \/ ProcessRoundPayouts
    \/ VerifyCommand
    \/ VerifyRead
    \/ VerifyWrite
    \/ Confirm
    \/ ScoreAndPay
    \/ Persist
    \/ AddParticipantRead
    \/ AddParticipantWrite

Spec == Init /\ [][Next]_vars

\* ------------------------------- get_validator_for_round and the registry
MaxVersions == 2
MaxNewVersions == 1
MaxCalls == 2

\* what an entry of "versions" may hold: the rounds it applies to and
\* parameters.use_baseline_adjustment, which may be absent
VersionInfos ==
    [applied_to_rounds : {{"round1"}, {"round2"}},
     use_baseline_adjustment : {None, Some(FALSE), Some(TRUE)}]

VersionEntry(k, info) ==
    [version |-> k, applied_to_rounds |-> info.applied_to_rounds,
     use_baseline_adjustment |-> info.use_baseline_adjustment]

InitRegistry ==
    /\ \E infos \in UNION {[1..k -> VersionInfos] : k \in 0..MaxVersions} :
          reg_versions = [k \in 1..Len(infos) |-> VersionEntry(k, infos[k])]
    /\ reg_appended = 0
    /\ reg_calls = <<>>
    /\ sc_idle
    /\ ext_idle
    /\ cp_idle
    /\ gc_idle
    /\ rp_idle

\* one call of get_validator_for_round on the file as it is
GetValidatorForRound ==
    /\ Len(reg_calls) < MaxCalls
    /\ \E round_id \in RoundIds :
          reg_calls' = Append(reg_calls,
              [round_id |-> round_id, entries |-> Len(reg_versions),
               validator |-> get_validator_for_round(round_id, reg_versions)])
    /\ UNCHANGED <<reg_versions, reg_appended, sc_vars, cp_vars, gc_vars,
                   rp_vars, ext_vars>>

\* a maintainer appends a version entry to scoring_versions.json
AppendVersion ==
    /\ reg_appended < MaxNewVersions
    /\ \E info \in VersionInfos :
          reg_versions' = Append(reg_versions,
                                 VersionEntry(Len(reg_versions) + 1, info))
    /\ reg_appended' = reg_appended + 1
    /\ UNCHANGED <<reg_calls, sc_vars, cp_vars, gc_vars, rp_vars, ext_vars>>

NextRegistry == GetValidatorForRound \/ AppendVersion

SpecRegistry == InitRegistry /\ [][NextRegistry]_vars

\* --------------------------------------- calculate_adjusted_score as a call
MaxShortGuess == 3

\* guesses of a few characters, and guesses around the length limit
ShortGuesses == UNION {[1..k -> {"a", " "}] : k \in 0..MaxShortGuess}
LongGuesses ==
    {[k \in 1..len |-> "a"] :
        len \in (MaxGuessChars - 1)..(MaxGuessChars + 1)}
    \cup {[k \in 1..len |-> IF k = 1 THEN " " ELSE "a"] :
             len \in MaxGuessChars..(MaxGuessChars + 1)}
Guesses == {None} \cup {Some(g) : g \in ShortGuesses \cup LongGuesses}

InitScore ==
    /\ sc_validator \in {"LegacyScoreValidator", "ScoreValidator"}
    /\ sc_guess \in Guesses
    /\ sc_result = <<>>
    /\ reg_idle
    /\ ext_idle
    /\ cp_idle
    /\ gc_idle
    /\ rp_idle

\* validator.calculate_adjusted_score(image_features, guess); the embedder
\* gives the guess a similarity when it is called
CalculateAdjustedScore ==
    /\ sc_result = <<>>
    /\ \E similarity \in RawScores :
          LET emb == [g \in {sc_guess[k] : k \in 1..Len(sc_guess)} |->
                         similarity]
          IN  sc_result' =
                  <<[score |-> calculate_adjusted_score(sc_validator, emb,
                                                        sc_guess),
                     embedded |-> embedder_calls(sc_validator, sc_guess)]>>
    /\ UNCHANGED <<sc_validator, sc_guess, reg_vars, cp_vars, gc_vars,
                   rp_vars, ext_vars>>

NextScore == CalculateAdjustedScore

SpecScore == InitScore /\ [][NextScore]_vars

\* ------------------------------------- JsonDataAccess and the rounds file
MaxCommitments == 1

\* str.lstrip("@")
RECURSIVE lstrip(_)
lstrip(str) ==
    IF str # <<>> /\ Head(str) = "@" THEN lstrip(Tail(str)) ELSE str

\* dict.update(updates)
dict_update(dict, updates) ==
    [f \in DOMAIN dict \cup DOMAIN updates |->
        IF f \in DOMAIN updates THEN updates[f] ELSE dict[f]]

\* _update_participant_from_commitment for a commitment that carries a
\* username and a commitment_hash: a new participant starts with valid true
\* and without guess and salt, an existing one gets the new commitment
update_participant_from_commitment(participants, commitment) ==
    LET username == lstrip(commitment.username)
        found == {k \in 1..Len(participants) :
                     participants[k].username = username}
    IN  IF found = {}
        THEN Append(participants,
                    [username |-> username, wallet |-> <<>>,
                     commitment |-> commitment.commitment_hash,
                     commitment_url |-> <<>>, valid |-> TRUE,
                     entry_fee_assigned |-> FALSE])
        ELSE [participants EXCEPT
                 ![CHOOSE k \in found : \A j \in found : k <= j].commitment =
                     commitment.commitment_hash]

RECURSIVE apply_commitments(_, _, _)
apply_commitments(participants, commitments, k) ==
    IF k > Len(commitments) THEN participants
    ELSE apply_commitments(
             update_participant_from_commitment(participants, commitments[k]),
             commitments, k + 1)

\* the file data save_commitments writes (the timestamp is left out)
save_commitments(data, round_id, commitments) ==
    LET round_data == IF round_id \in DOMAIN data THEN data[round_id]
                      ELSE [participants |-> <<>>]
        collected == [success |-> TRUE, commitments |-> commitments,
                      total_commitments_found |-> Len(commitments)]
        updated ==
            [f \in DOMAIN round_data \cup {"collected_commitments"} |->
                IF f = "collected_commitments" THEN collected
                ELSE IF f = "participants"
                     THEN apply_commitments(round_data.participants,
                                            commitments, 1)
                     ELSE round_data[f]]
    IN  [r \in DOMAIN data \cup {round_id} |->
            IF r = round_id THEN updated ELSE data[r]]

\* the file data update_participant leaves: the first participant with the
\* username gets the updates; nothing is written when there is none
update_participant(data, round_id, username, updates) ==
    IF round_id \notin DOMAIN data THEN data
    ELSE LET participants == data[round_id].participants
             found == {k \in 1..Len(participants) :
                          participants[k].username = lstrip(username)}
         IN  IF found = {} THEN data
             ELSE [data EXCEPT ![round_id].participants =
                      [@ EXCEPT ![CHOOSE k \in found : \A j \in found : k <= j] =
                                    dict_update(@, updates)]]

\* the keys the loop of verify_round_commitments reads by subscript
has_keys(participant) ==
    {"username", "guess", "salt", "commitment"} \subseteq DOMAIN participant

CommitUsernames == {<<"u">>, <<"@", "u">>, <<"v">>}
OtherCommitted == generate_commitment(<<"b">>, <<"b">>).value
CommitmentLists ==
    UNION {[1..k -> [username : CommitUsernames,
                     commitment_hash : {Committed, OtherCommitted}]] :
              k \in 0..MaxCommitments}

\* a reveal of guess and salt, and a reveal of the guess alone
RevealUpdates ==
    {[guess |-> Some(g), salt |-> Some(<<"b">>)] : g \in {<<"a">>, <<"b">>}}
        \cup {[guess |-> Some(<<"a">>)]}

\* the file as JsonDataAccess.__init__ creates it
InitStore ==
    /\ store = <<>>
    /\ file_exists = TRUE
    /\ pc = "off" /\ caller = ""
    /\ args = NoArgs /\ run = NoRun /\ ver = NoVer /\ writer = NoWriter
    /\ hist = NoHist
    /\ cp_idle
    /\ gc_idle
    /\ aux_idle

StoreFrame ==
    UNCHANGED <<file_exists, pc, caller, args, run, writer, hist,
                cp_vars, gc_vars, aux_vars>>

\* JsonDataAccess.save_commitments("round1", commitments)
SaveCommitments ==
    /\ \E commitments \in CommitmentLists :
          store' = save_commitments(store, "round1", commitments)
    /\ UNCHANGED ver
    /\ StoreFrame

\* JsonDataAccess.update_participant("round1", username, updates)
UpdateParticipant ==
    /\ \E username \in CommitUsernames, updates \in RevealUpdates :
          store' = update_participant(store, "round1", username, updates)
    /\ UNCHANGED ver
    /\ StoreFrame

\* verify_round_commitments("round1") from the read to the return; ver.ret
\* stays empty when the loop raises KeyError on a participant without guess
\* or salt key, which is before the dump
VerifyRound ==
    /\ IF "round1" \notin DOMAIN store
          \/ store["round1"].participants = <<>>
       THEN /\ ver' = [NoVer EXCEPT !.ret = Some(FALSE)]
            /\ UNCHANGED store
       ELSE IF \E k \in 1..Len(store["round1"].participants) :
                  ~has_keys(store["round1"].participants[k])
       THEN /\ ver' = NoVer
            /\ UNCHANGED store
       ELSE /\ store' = [store EXCEPT !["round1"].participants =
                            [k \in 1..Len(@) |-> verify_participant(@[k])]]
            /\ ver' = [NoVer EXCEPT !.ret =
                          Some(verify_all_valid(store["round1"].participants))]
    /\ StoreFrame

NextStore == SaveCommitments \/ UpdateParticipant \/ VerifyRound

SpecStore == InitStore /\ [][NextStore]_vars

\* --------------------------------- BaselineAdjustedStrategy.calculate_score
\* A feature vector has two components, each an integer count of halves;
\* a dot product is then an integer count of quarters and 1.0 is One.
One == 4

Components == (0 - MaxComponent)..MaxComponent
Features == Components \X Components

\* np.dot of two vectors
dot(u, v) == u[1] * v[1] + u[2] * v[2]

\* float64 division n / d: a rational, or with d = 0 the values inf
\* (num 1, den 0), -inf (num -1, den 0) and nan (num 0, den 0)
float_div(n, d) ==
    IF d = 0
    THEN [num |-> IF n > 0 THEN 1 ELSE IF n < 0 THEN 0 - 1 ELSE 0, den |-> 0]
    ELSE Rat(n, d)

\* max(0.0, x): x when x > 0.0 compares true, else 0.0
float_max0(x) == IF x.num > 0 THEN x ELSE Rat(0, 1)

\* the adjusted score returned as it is
BaselineAdjustedStrategy_calculate_score_noclamp(image_features, text_features, baseline_features) ==
    IF baseline_features = None THEN Raised("ValueError")
    ELSE LET raw_score == dot(text_features, image_features)
             baseline_score == dot(baseline_features[1], image_features)
         IN  Returned(<<float_div(raw_score - baseline_score,
                                  One - baseline_score)>>)

\* lines 70-88; baseline_features is None when the keyword is not passed
BaselineAdjustedStrategy_calculate_score(image_features, text_features, baseline_features) ==
    IF baseline_features = None THEN Raised("ValueError")
    ELSE LET raw_score == dot(text_features, image_features)
             baseline_score == dot(baseline_features[1], image_features)
             adjusted_score == float_div(raw_score - baseline_score,
                                         One - baseline_score)
         IN  Returned(<<float_max0(adjusted_score)>>)

InitBaseline ==
    /\ \E image_features \in Features, text_features \in Features,
          baseline_features \in {None} \cup {Some(f) : f \in Features} :
          bl = [image_features |-> image_features,
                text_features |-> text_features,
                baseline_features |-> baseline_features, out |-> <<>>]
    /\ par_idle
    /\ jda_idle
    /\ registry_idle
    /\ reg_idle
    /\ sc_idle
    /\ cp_idle
    /\ gc_idle
    /\ rp_idle

CalculateScore ==
    /\ bl.out = <<>>
    /\ bl' = [bl EXCEPT !.out =
                 <<BaselineAdjustedStrategy_calculate_score(
                       bl.image_features, bl.text_features,
                       bl.baseline_features)>>]
    /\ UNCHANGED <<par, jda, registry, cp_vars, gc_vars, rp_vars, reg_vars, sc_vars>>

NextBaseline == CalculateScore

SpecBaseline == InitBaseline /\ [][NextBaseline]_vars

\* ------------------------------------------------------ process_all_rounds
\* the rounds of the file in the order json.load yields its keys
RoundOrder == <<"round1", "round2">>

\* the similarity the embedder gives each guess of the batch model
BatchEmbedder == [g \in {<<"a">>, <<"b">>} |-> IF g = <<"a">> THEN 14 ELSE 6]

\* one whole call of process_round_payouts(round_id, prize_pool,
\* save_to_file, verify_commitments) on the file data, with no other
\* process at the file: the file it leaves and "" or the reason of its
\* sys.exit.  prize_pool is the optional argument, answer what the user
\* types if asked.
process_round_payouts(data, image_exists, round_id, prize_pool, save_to_file, verify_commitments, answer) ==
    LET resolved == resolve_prize_pool(prize_pool, data[round_id].prize_pool)
        participants == data[round_id].participants
        verified ==
            IF verify_commitments
            THEN [data EXCEPT ![round_id].participants =
                     [k \in 1..Len(@) |-> verify_participant(@[k])]]
            ELSE data
        all_valid == verify_all_valid(participants)
        reloaded == verified[round_id].participants
        validator == get_validator_for_round(round_id, VersionsFile)
        scored == [verified EXCEPT
                      ![round_id].participants =
                          score_and_pay(reloaded, validator, BatchEmbedder,
                                        resolved[1]),
                      ![round_id].total_payout = resolved]
    IN  IF round_id \notin DOMAIN data
        THEN [file |-> data, exit |-> "round_not_found"]
        ELSE IF resolved = None
        THEN [file |-> data, exit |-> "no_prize_pool"]
        ELSE IF ~image_exists
        THEN [file |-> data, exit |-> "no_target_image"]
        ELSE IF participants = <<>>
        THEN [file |-> data, exit |-> "no_participants"]
        ELSE IF verify_commitments /\ ~all_valid /\ ~confirmed(answer)
        THEN [file |-> verified, exit |-> "declined"]
        ELSE IF dumps_results(\E k \in 1..Len(reloaded) : reloaded[k].valid,
                              save_to_file)
        THEN [file |-> scored, exit |-> ""]
        ELSE [file |-> verified, exit |-> ""]

\* a loop that does not look at total_payout
needs_payouts_mut(round) ==
    /\ round.participants # <<>>
    /\ round.prize_pool # None

\* lines 213-226: the round is not skipped
needs_payouts(round) ==
    /\ round.participants # <<>>
    /\ round.total_payout = None
    /\ round.prize_pool # None

BatchLists ==
    UNION {[1..n -> {<<Some(<<"a">>), Some(<<"b">>)>>,
                     <<Some(<<"b">>), Some(<<"b">>)>>} \X BOOLEAN] :
              n \in 0..MaxBatch}

InitAll ==
    /\ \E exists \in BOOLEAN :
          IF exists
          THEN \E lists \in [RoundIds -> BatchLists],
                  pools \in [RoundIds -> StoredPrizePools],
                  images \in [RoundIds -> BOOLEAN] :
                  par = [NoBatch EXCEPT
                            !.file = [r \in RoundIds |->
                                         Round(InitialParticipants(lists[r]),
                                               pools[r])],
                            !.file_exists = TRUE,
                            !.images = images,
                            !.pc = "idle"]
          ELSE par = [NoBatch EXCEPT !.pc = "idle"]
    /\ bl_idle
    /\ jda_idle
    /\ registry_idle
    /\ reg_idle
    /\ sc_idle
    /\ cp_idle
    /\ gc_idle
    /\ rp_idle

AllFrame ==
    UNCHANGED <<bl, jda, registry, cp_vars, gc_vars, rp_vars, reg_vars, sc_vars>>

\* process_all_rounds up to the loop: the load of the file
ProcessAllRounds ==
    /\ par.pc \in {"idle", "returned", "exited"}
    /\ par.runs < MaxRuns
    /\ \E save_to_file \in BOOLEAN, verify_commitments \in BOOLEAN :
          par' = [par EXCEPT
                     !.runs = @ + 1,
                     !.save_to_file = save_to_file,
                     !.verify_commitments = verify_commitments,
                     !.round_data = par.file,
                     !.k = 1,
                     !.calls = <<>>,
                     !.file0 = par.file,
                     !.saved = (par.pc = "returned" /\ par.save_to_file),
                     !.pc = IF par.file_exists THEN "loop" ELSE "exited",
                     !.exit = IF par.file_exists THEN "" ELSE "no_file"]
    /\ AllFrame

\* one pass of the loop: the round is skipped, or process_round_payouts
\* runs on it with the prize pool of the loaded data
ProcessNextRound ==
    /\ par.pc = "loop"
    /\ par.k <= Len(RoundOrder)
    /\ LET round_id == RoundOrder[par.k]
       IN  IF ~needs_payouts(par.round_data[round_id])
           THEN par' = [par EXCEPT !.k = @ + 1]
           ELSE \E answer \in Answers :
                   LET prize_pool == par.round_data[round_id].prize_pool
                       call == process_round_payouts(
                                   par.file, par.images[round_id], round_id,
                                   prize_pool, par.save_to_file,
                                   par.verify_commitments, answer)
                   IN  par' = [par EXCEPT
                                  !.file = call.file,
                                  !.calls = Append(@,
                                      [round_id |-> round_id,
                                       prize_pool |-> prize_pool]),
                                  !.exit = call.exit,
                                  !.pc = IF call.exit = "" THEN "loop"
                                         ELSE "exited",
                                  !.k = @ + 1]
    /\ AllFrame

\* the end of the loop and the return
ReturnAll ==
    /\ par.pc = "loop"
    /\ par.k > Len(RoundOrder)
    /\ par' = [par EXCEPT !.pc = "returned"]
    /\ AllFrame

NextAll == ProcessAllRounds \/ ProcessNextRound \/ ReturnAll

SpecAll == InitAll /\ [][NextAll]_vars

\* ------------------------- JsonDataAccess: concurrent mutating operations
\* the file data save_round writes
save_round(data, round_id, round_data) ==
    [r \in DOMAIN data \cup {round_id} |->
        IF r = round_id THEN round_data ELSE data[r]]

\* the file data add_participant leaves: nothing is written when the round
\* does not exist
add_participant(data, round_id, participant_data) ==
    IF round_id \notin DOMAIN data THEN data
    ELSE [data EXCEPT ![round_id].participants = Append(@, participant_data)]

NewParticipant(username) ==
    [username |-> username, wallet |-> <<>>, commitment |-> Committed,
     commitment_url |-> <<>>, valid |-> TRUE, entry_fee_assigned |-> FALSE]

\* the calls the tasks make
Calls ==
    {[op |-> "save_round", round_id |-> "round1",
      round_data |-> [participants |-> <<>>]],
     [op |-> "save_commitments", round_id |-> "round1",
      commitments |-> <<[username |-> <<"@", "u">>,
                         commitment_hash |-> OtherCommitted]>>],
     [op |-> "update_participant", round_id |-> "round1",
      username |-> <<"u">>,
      updates |-> [guess |-> Some(<<"a">>), salt |-> Some(<<"b">>)]],
     [op |-> "add_participant", round_id |-> "round1",
      participant_data |-> NewParticipant(<<"v">>)],
     [op |-> "add_participant", round_id |-> "round1",
      participant_data |-> NewParticipant(<<"w">>)]}

\* the file data a call leaves when it runs on data
call_data(data, call) ==
    IF call.op = "save_round"
    THEN save_round(data, call.round_id, call.round_data)
    ELSE IF call.op = "save_commitments"
    THEN save_commitments(data, call.round_id, call.commitments)
    ELSE IF call.op = "update_participant"
    THEN update_participant(data, call.round_id, call.username, call.updates)
    ELSE add_participant(data, call.round_id, call.participant_data)

\* what the call returns when it runs on data
call_ret(data, call) ==
    IF call.op \in {"save_round", "save_commitments"} THEN TRUE
    ELSE IF call.op = "add_participant" THEN call.round_id \in DOMAIN data
    ELSE /\ call.round_id \in DOMAIN data
         /\ \E k \in 1..Len(data[call.round_id].participants) :
                data[call.round_id].participants[k].username
                    = lstrip(call.username)

\* a lock that every acquire takes at once
can_acquire_mut(lock) == TRUE

\* asyncio.Lock.acquire takes the lock without waiting when it is not held
\* and no task waits for it
can_acquire(lock) == lock.holder = 0 /\ lock.waiters = <<>>

\* the file as __init__ creates it, or with a round that save_commitments
\* wrote
InitFiles ==
    {<<>>,
     save_commitments(<<>>, "round1",
                      <<[username |-> <<"u">>, commitment_hash |-> Committed]>>)}

InitJson ==
    /\ \E file \in InitFiles,
          calls \in UNION {[1..n -> Calls] : n \in 1..MaxTasks} :
          jda = [file |-> file, file0 |-> file, lock |-> NoLock,
                 tasks |-> [t \in 1..Len(calls) |->
                               [call |-> calls[t], pc |-> "call",
                                data |-> None, ret |-> None,
                                waited |-> FALSE]]]
    /\ bl_idle
    /\ par_idle
    /\ registry_idle
    /\ reg_idle
    /\ sc_idle
    /\ cp_idle
    /\ gc_idle
    /\ rp_idle

JsonFrame ==
    UNCHANGED <<bl, par, registry, cp_vars, gc_vars, rp_vars, reg_vars, sc_vars>>

\* async with self._lock: the task takes the lock or queues for it
Acquire ==
    /\ \E t \in 1..Len(jda.tasks) :
          /\ jda.tasks[t].pc = "call"
          /\ IF can_acquire(jda.lock)
             THEN jda' = [jda EXCEPT !.lock.holder = t,
                                     !.tasks[t].pc = "locked"]
             ELSE jda' = [jda EXCEPT !.lock.waiters = Append(@, t),
                                     !.tasks[t].pc = "waiting",
                                     !.tasks[t].waited = TRUE]
    /\ JsonFrame

\* data = await self._read_data()
Read ==
    /\ \E t \in 1..Len(jda.tasks) :
          /\ jda.tasks[t].pc = "locked"
          /\ jda' = [jda EXCEPT !.tasks[t].pc = "read",
                                 !.tasks[t].data = Some(jda.file)]
    /\ JsonFrame

\* the change of data and self._write_data(data), or the return of False
\* without a write
Write ==
    /\ \E t \in 1..Len(jda.tasks) :
          /\ jda.tasks[t].pc = "read"
          /\ jda' = [jda EXCEPT
                        !.file = IF call_ret(jda.tasks[t].data[1],
                                             jda.tasks[t].call)
                                 THEN call_data(jda.tasks[t].data[1],
                                                jda.tasks[t].call)
                                 ELSE @,
                        !.tasks[t].ret =
                            Some(call_ret(jda.tasks[t].data[1],
                                          jda.tasks[t].call)),
                        !.tasks[t].pc = "written"]
    /\ JsonFrame

\* the end of the async with block: the lock goes to the first waiter
Release ==
    /\ \E t \in 1..Len(jda.tasks) :
          /\ jda.tasks[t].pc = "written"
          /\ IF jda.lock.waiters = <<>>
             THEN jda' = [jda EXCEPT !.lock.holder = 0,
                                     !.tasks[t].pc = "done"]
             ELSE jda' = [jda EXCEPT
                             !.lock.holder = Head(jda.lock.waiters),
                             !.lock.waiters = Tail(@),
                             !.tasks[t].pc = "done",
                             !.tasks[Head(jda.lock.waiters)].pc = "locked"]
    /\ JsonFrame

NextJson == Acquire \/ Read \/ Write \/ Release

\* the event loop runs a task that can run
SpecJson == InitJson /\ [][NextJson]_vars /\ WF_vars(NextJson)

\* ---------------------------------------------------------- PlayerRegistry
\* entry_fee is a whole amount, platform_fee_percent a count of hundredths;
\* prize_pool and platform_fees are counts of hundredths of the amount
PlayerIds == {"p1", "p2", "p3"}
GuessArgs == {0 - 1, 0, 50, 100, 101}

\* PlayerRegistry(entry_fee, platform_fee_percent)
InitPlayers ==
    /\ \E entry_fee \in {10}, platform_fee_percent \in {0, 20} :
          registry = [NoRegistry EXCEPT
                         !.entry_fee = entry_fee,
                         !.platform_fee_percent = platform_fee_percent]
    /\ bl_idle
    /\ par_idle
    /\ jda_idle
    /\ reg_idle
    /\ sc_idle
    /\ cp_idle
    /\ gc_idle
    /\ rp_idle

\* add_player(player_id, guess) with _process_fee; the call is recorded
\* with what it raised
AddPlayer ==
    /\ Len(registry.calls) < MaxAdds
    /\ \E player_id \in PlayerIds, guess \in GuessArgs :
          IF ~(0 <= guess /\ guess <= 100)
          THEN registry' = [registry EXCEPT
                  !.calls = Append(@, [player_id |-> player_id,
                                       guess |-> guess,
                                       error |-> "ValueError"])]
          ELSE LET platform_fee ==
                       registry.entry_fee * registry.platform_fee_percent
               IN  registry' = [registry EXCEPT
                      !.players =
                          [q \in DOMAIN registry.players \cup {player_id} |->
                              IF q = player_id
                              THEN [id |-> player_id, guess |-> guess,
                                    fee_paid |-> registry.entry_fee]
                              ELSE registry.players[q]],
                      !.platform_fees = @ + platform_fee,
                      !.prize_pool =
                          @ + (registry.entry_fee * 100 - platform_fee),
                      !.calls = Append(@, [player_id |-> player_id,
                                           guess |-> guess, error |-> ""])]
    /\ UNCHANGED <<bl, par, jda, cp_vars, gc_vars, rp_vars, reg_vars, sc_vars>>

NextPlayers == AddPlayer

SpecPlayers == InitPlayers /\ [][NextPlayers]_vars

\* ------------------------------------------------- claims: payout rules
Sim(rr, k) == rr[k][2]

\* zero-based position at which the maximal run of equal scores holding
\* entry k starts, and the one-based position at which it ends
RunStart(rr, k) ==
    CHOOSE p \in 0..(k - 1) :
        /\ \A j \in (p + 1)..k : Sim(rr, j) = Sim(rr, k)
        /\ p = 0 \/ Sim(rr, p) # Sim(rr, k)
RunEnd(rr, k) ==
    CHOOSE e \in k..Len(rr) :
        /\ \A j \in k..e : Sim(rr, j) = Sim(rr, k)
        /\ e = Len(rr) \/ Sim(rr, e + 1) # Sim(rr, k)

Triangular(n) == (n * (n + 1)) \div 2

PayoutsReturned == cp_out # <<>> /\ Len(cp_ranked) >= 1 /\ cp_pool > 0

\* C1: for every ranked list of n >= 1 entries, with any pattern of ties,
\* and every prize pool > 0, calculate_payouts returns one payout per entry
\* and the payouts sum to the prize pool: the weights payout / pool sum to
\* exactly 1, and the points of the tie groups sum to n(n+1)/2.
C1_PayoutConservation ==
    PayoutsReturned =>
        LET n == Len(cp_ranked)
            payouts == cp_out[1]
            starts == {RunStart(cp_ranked, k) : k \in 1..n}
            size(p) == RunEnd(cp_ranked, p + 1) - p
            points(p) == SumSeq([i \in 1..size(p) |-> n - (p + (i - 1))])
            weights == [k \in 1..n |-> RatDiv(payouts[k], Rat(cp_pool, 1))]
        IN  /\ Len(payouts) = n
            /\ RatSum(payouts) = Rat(cp_pool, 1)
            /\ RatSum(weights) = Rat(1, 1)
            /\ SumSeq([p \in 1..n |-> IF (p - 1) \in starts
                                       THEN points(p - 1) ELSE 0])
                   = Triangular(n)
            /\ SumSeq([j \in 1..Len(tie_groups(cp_ranked)) |->
                          Len(tie_groups(cp_ranked)[j])]) = n

C1_Witness ==
    /\ PayoutsReturned
    /\ Len(cp_ranked) >= 3
    /\ cp_pool >= 2
    /\ Sim(cp_ranked, 1) = Sim(cp_ranked, 2)
    /\ Sim(cp_ranked, 2) > Sim(cp_ranked, 3)
    /\ RatSum(cp_out[1]) = Rat(cp_pool, 1)

\* C2: every member of the maximal run of equal scores that starts at
\* zero-based position p and has size g receives
\* ((g*(n-p) - g*(g-1)/2) / g) / (n(n+1)/2) * prize pool; so n = 1 gives
\* the whole pool, two distinct scores 2/3 and 1/3, three distinct scores
\* 1/2, 1/3, 1/6, and a tie of two above a third 5/12, 5/12, 1/6.
C2_GroupFormula ==
    PayoutsReturned =>
        LET n == Len(cp_ranked)
            payouts == cp_out[1]
            pool == Rat(cp_pool, 1)
            distinct == \A k \in 1..(n - 1) :
                            Sim(cp_ranked, k) # Sim(cp_ranked, k + 1)
            share(a, b) == RatMul(Rat(a, b), pool)
        IN  /\ \A k \in 1..n :
                  LET p == RunStart(cp_ranked, k)
                      g == RunEnd(cp_ranked, k) - p
                  IN  payouts[k] =
                          RatMul(RatDiv(Rat(g * (n - p) - (g * (g - 1)) \div 2, g),
                                        Rat(Triangular(n), 1)), pool)
            /\ n = 1 => payouts = <<pool>>
            /\ (n = 2 /\ distinct) => payouts = <<share(2, 3), share(1, 3)>>
            /\ (n = 3 /\ distinct) =>
                  payouts = <<share(1, 2), share(1, 3), share(1, 6)>>
            /\ (n = 3 /\ Sim(cp_ranked, 1) = Sim(cp_ranked, 2)
                      /\ Sim(cp_ranked, 2) # Sim(cp_ranked, 3)) =>
                  payouts = <<share(5, 12), share(5, 12), share(1, 6)>>

C2_Witness ==
    /\ PayoutsReturned
    /\ Len(cp_ranked) = 3
    /\ cp_pool = 1
    /\ Sim(cp_ranked, 1) = Sim(cp_ranked, 2)
    /\ Sim(cp_ranked, 2) > Sim(cp_ranked, 3)
    /\ cp_out[1] = <<Rat(5, 12), Rat(5, 12), Rat(1, 6)>>

\* C3: on a list sorted by descending score with prize pool > 0, two
\* entries with the same score receive the same payout and an entry with a
\* strictly higher score receives a strictly greater payout.
C3_PayoutOrder ==
    PayoutsReturned =>
        \A i, j \in 1..Len(cp_ranked) :
            /\ Sim(cp_ranked, i) = Sim(cp_ranked, j) =>
                  cp_out[1][i] = cp_out[1][j]
            /\ Sim(cp_ranked, i) > Sim(cp_ranked, j) =>
                  RatLt(cp_out[1][j], cp_out[1][i])

C3_Witness ==
    /\ PayoutsReturned
    /\ Len(cp_ranked) >= 3
    /\ Sim(cp_ranked, 1) > Sim(cp_ranked, 2)
    /\ Sim(cp_ranked, 2) = Sim(cp_ranked, 3)
    /\ RatLt(cp_out[1][2], cp_out[1][1])
    /\ cp_out[1][2] = cp_out[1][3]

\* --------------------------------------------- claims: commitment codec
LowerHex == {"0", "1", "2", "3", "4", "5", "6", "7",
             "8", "9", "a", "b", "c", "d", "e", "f"}

Checked == gc_hash # <<>> /\ gc_check # <<>>

\* the validator accepts the revealed pair against the miner's hash
Accepted ==
    /\ gc_check[1].error = ""
    /\ gc_hash[1].error = ""
    /\ gc_check[1].value = gc_hash[1].value

\* C6: for non-empty message m and salt s, checking (m, s) against the
\* miner's hash of (m, s) succeeds (miner side and validator side compute
\* the same hash), and checking a pair that differs from (m, s) in the
\* message only or in the salt only fails.
C6_RoundTrip ==
    /\ (gc_hash # <<>> /\ gc_message # <<>> /\ gc_salt # <<>>) =>
          /\ gc_hash[1].error = ""
          /\ gc_hash[1] = generate_commitment(gc_message, gc_salt)
    /\ (Checked /\ gc_message # <<>> /\ gc_salt # <<>>) =>
          /\ gc_reveal = <<gc_message, gc_salt>> => Accepted
          /\ (gc_reveal[1] # gc_message /\ gc_reveal[2] = gc_salt) => ~Accepted
          /\ (gc_reveal[1] = gc_message /\ gc_reveal[2] # gc_salt) => ~Accepted

C6_Witness ==
    /\ Checked
    /\ gc_message # <<>> /\ gc_salt # <<>>
    /\ gc_reveal[1] = gc_message
    /\ gc_reveal[2] # gc_salt /\ gc_reveal[2] # <<>>
    /\ ~Accepted

\* C7: generate_commitment raises the input error exactly when the salt is
\* empty, whatever the message; for a non-empty salt it returns a digest of
\* 64 lowercase hexadecimal characters.
C7_EmptySalt ==
    gc_check # <<>> =>
        LET r == gc_check[1]
        IN  /\ r.error = "ValueError" <=> gc_reveal[2] = <<>>
            /\ r.error = "ValueError" => r.value = <<>>
            /\ gc_reveal[2] # <<>> =>
                  /\ r.error = ""
                  /\ Len(r.value) = 64
                  /\ \A k \in 1..Len(r.value) : r.value[k] \in LowerHex

C7_Witness ==
    /\ gc_check # <<>>
    /\ gc_reveal[1] # <<>>
    /\ gc_reveal[2] = <<>>
    /\ gc_check[1].error = "ValueError"

\* ------------------------------------------ claims: commitment verification
Participants(data) == data[args.round_id].participants

HasBoth(participant) ==
    /\ participant.guess # None /\ participant.guess[1] # <<>>
    /\ participant.salt # None /\ participant.salt[1] # <<>>

\* the recomputed hash equals the stored one: every commitment of the
\* model is the hash of guess "a" and salt "b"
Matches(participant) ==
    /\ participant.commitment = Committed
    /\ participant.guess = Some(<<"a">>)
    /\ participant.salt = Some(<<"b">>)

\* C4: in the round verify_round_commitments writes, a participant that was
\* read with guess and salt has valid = TRUE when its recomputed hash equals
\* the stored commitment and valid = FALSE when it differs; a participant
\* read without guess or without salt keeps the valid flag it was read with.
\* The file holds the written round once verification has returned.
C4_VerifyFlags ==
    ver.out # None =>
        /\ Len(Participants(ver.out[1])) = Len(Participants(ver.read[1]))
        /\ \A k \in 1..Len(Participants(ver.read[1])) :
              LET before == Participants(ver.read[1])[k]
                  after == Participants(ver.out[1])[k]
              IN  /\ (HasBoth(before) /\ Matches(before)) => after.valid = TRUE
                  /\ (HasBoth(before) /\ ~Matches(before)) => after.valid = FALSE
                  /\ ~HasBoth(before) => after.valid = before.valid
        /\ (ver.ret # None /\ hist.appended = {} /\ pc \in {"confirm", "reload"})
              => store = ver.out[1]

C4_Witness ==
    /\ ver.out # None
    /\ ver.ret = Some(FALSE)
    /\ store = ver.out[1]
    /\ \E k, j \in 1..Len(Participants(ver.read[1])) :
          /\ HasBoth(Participants(ver.read[1])[k])
          /\ Participants(ver.read[1])[k].valid
          /\ ~Participants(store)[k].valid
          /\ ~HasBoth(Participants(ver.read[1])[j])
          /\ Participants(ver.read[1])[j].valid
          /\ Participants(store)[j].valid

RoundRead ==
    /\ ver.read # None
    /\ args.round_id \in DOMAIN ver.read[1]

NoMismatchNoMissing ==
    \A k \in 1..Len(Participants(ver.read[1])) :
        /\ HasBoth(Participants(ver.read[1])[k])
        /\ Matches(Participants(ver.read[1])[k])

\* C5 as claimed: for every round, verify_round_commitments returns true
\* if and only if no participant with guess and salt has a mismatch and no
\* participant is missing guess or salt.
C5_AsClaimed ==
    (ver.ret # None /\ RoundRead) => (ver.ret[1] <=> NoMismatchNoMissing)

\* C5: verify_round_commitments returns true if and only if the round
\* exists, has at least one participant, no participant with guess and salt
\* has a mismatch and no participant is missing guess or salt; for a round
\* without participants it returns false.
C5_VerifyResult ==
    ver.ret # None =>
        (ver.ret[1] <=> /\ RoundRead
                        /\ Participants(ver.read[1]) # <<>>
                        /\ NoMismatchNoMissing)

C5_Witness ==
    /\ ver.ret = Some(TRUE)
    /\ Len(Participants(ver.read[1])) >= 2

\* ------------------------------------------------ claims: the payout run
Affirmative(answer) == answer # <<>> /\ answer[1] \in {"y", "Y"}

VerificationFailed == args.verify_commitments /\ ver.ret = Some(FALSE)

MayProceed ==
    \/ ~args.verify_commitments
    \/ ver.ret = Some(TRUE)
    \/ run.answer # None /\ Affirmative(run.answer[1])

Scoring ==
    pc \in {"reload", "persist", "done"} \/ run.exit \in {"error", "score_error"}

PastConfirm == Scoring \/ run.exit = "declined"

\* C8: in process_round_payouts the continue/abort question is asked
\* exactly when verification ran and returned false; the run goes on to
\* strategy resolution and scoring exactly when verification was skipped,
\* returned true or the answer was affirmative, and otherwise exits with no
\* validator obtained and no score computed.
C8_Confirmation ==
    caller = "prp" =>
        /\ run.prompted => VerificationFailed
        /\ PastConfirm => (run.prompted <=> VerificationFailed)
        /\ PastConfirm => (Scoring <=> MayProceed)
        /\ run.validator # None => MayProceed
        /\ (PastConfirm /\ ~MayProceed) =>
              /\ pc = "exited"
              /\ run.exit = "declined"
              /\ run.validator = None
              /\ \A k \in 1..Len(Participants(run.round_data[1])) :
                    /\ Participants(run.round_data[1])[k].score = None
                    /\ Participants(run.round_data[1])[k].payout = None

C8_Witness ==
    /\ caller = "prp"
    /\ pc = "exited"
    /\ run.exit = "declined"
    /\ run.prompted
    /\ run.answer = Some(<<"n", "o">>)
    /\ run.validator = None

\* the record of every round, compared field by field but for valid
SameButValid(data, other) ==
    /\ DOMAIN data = DOMAIN other
    /\ \A r \in DOMAIN data :
          /\ data[r].prize_pool = other[r].prize_pool
          /\ data[r].total_payout = other[r].total_payout
          /\ Len(data[r].participants) = Len(other[r].participants)
          /\ \A k \in 1..Len(data[r].participants) :
                [data[r].participants[k] EXCEPT !.valid = TRUE]
                    = [other[r].participants[k] EXCEPT !.valid = TRUE]

BeforeVerification ==
    run.exit \in {"no_file", "round_not_found", "no_prize_pool",
                  "no_target_image", "no_participants"}

\* C9 as claimed: when a payout run has aborted before the final persist
\* (and no other process wrote the file), the stored rounds are identical
\* to what they were when the run started.
C9_AsClaimed ==
    (caller = "prp" /\ pc = "exited" /\ hist.appended = {}) =>
        store = hist.store0

\* C9: when a payout run has aborted before the final persist (and no other
\* process wrote the file), the stored round differs from what it was when
\* the run started at most in the valid flags, which verify_round_commitments
\* writes back before the override question; it is identical when the run
\* aborted before verification or verification was disabled.  Until the
\* final persist step prize_pool, total_payout, score and payout are as
\* they were when the run started.
C9_AbortLeavesRound ==
    (caller = "prp" /\ hist.appended = {}) =>
        /\ pc # "done" => SameButValid(store, hist.store0)
        /\ (pc = "exited" /\ (BeforeVerification \/ ~args.verify_commitments))
              => store = hist.store0
        /\ (pc = "exited" /\ ver.out # None) => store = ver.out[1]

C9_Witness ==
    /\ caller = "prp"
    /\ pc = "exited"
    /\ run.exit = "declined"
    /\ hist.appended = {}
    /\ store # hist.store0
    /\ SameButValid(store, hist.store0)

\* C10 as claimed: whatever another writer appended to the round while a
\* payout run was between a read and a write of the file is still in the
\* stored round when the run has finished.
C10_NoLostUpdate ==
    (caller = "prp" /\ pc \in {"done", "exited"} /\ writer.pc = "idle") =>
        \A name \in hist.appended :
            \E k \in 1..Len(store["round1"].participants) :
                store["round1"].participants[k].username = name

\* ------------------------------------------- claims: scoring and payouts
\* the scoring loop of the run has finished
RunScored == caller = "prp" /\ pc \in {"persist", "done"}

\* the run's round record holds no score and no payout under the username
Unscored(username) ==
    \A j \in 1..Len(Participants(run.round_data[1])) :
        Participants(run.round_data[1])[j].username = username =>
            /\ Participants(run.round_data[1])[j].score = None
            /\ Participants(run.round_data[1])[j].payout = None

\* C11: in a payout run with verification enabled that continued after a
\* failed verification, a participant that verification read with guess and
\* salt and whose recomputed hash differs from the stored commitment has no
\* score and no payout in the run's round record, whatever its valid flag
\* was before: scoring reads the flags verification wrote in the same run.
C11_MismatchUnscored ==
    (RunScored /\ args.verify_commitments /\ run.prompted) =>
        \A k \in 1..Len(Participants(ver.read[1])) :
            (HasBoth(Participants(ver.read[1])[k])
                /\ ~Matches(Participants(ver.read[1])[k]))
            => Unscored(Participants(ver.read[1])[k].username)

\* C12: a participant whose guess or salt is missing has no score and no
\* payout in the round record of a payout run that has finished scoring,
\* whatever its stored valid flag and whether or not verification ran; the
\* run does not fail because of it.
C12_MissingUnscored ==
    RunScored =>
        \A k \in 1..Len(Participants(run.round_data[1])) :
            ~HasBoth(Participants(run.round_data[1])[k]) =>
                /\ Participants(run.round_data[1])[k].score = None
                /\ Participants(run.round_data[1])[k].payout = None

\* the participants of the run's round record, and the valid ones
Scored == Participants(run.round_data[1])
ValidOnes == {k \in 1..Len(Scored) : Scored[k].valid}

\* the similarity the embedder gave participant k's guess, in 1e-7 units;
\* 0 for a participant without guess
RawScore(k) ==
    IF Scored[k].guess = None \/ Scored[k].guess[1] = <<>> THEN 0
    ELSE run.emb[1][Scored[k].guess[1]]

\* x is a nearest integer to num/den
Nearest(x, num, den) == 2 * Abs(x * den - num) <= den

\* the similarities of the valid participants, by position in the round
Raw == [k \in ValidOnes |-> RawScore(k)]

\* numerator and denominator of the exact share of valid participant k, in
\* 1e-6 units: its tie group starts after the valid participants that score
\* higher and has as many members as score the same
Share(raw, k) ==
    LET n == Cardinality(DOMAIN raw)
        above == Cardinality({j \in DOMAIN raw : raw[j] > raw[k]})
        same == Cardinality({j \in DOMAIN raw : raw[j] = raw[k]})
    IN  [num |-> (same * (n - above) - (same * (same - 1)) \div 2)
                    * run.prize_pool[1],
         den |-> same * Triangular(n)]

\* the payout of valid participant k is its share rounded to 6 decimals
PayoutIsShare(raw, k) ==
    LET share == Share(raw, k)
    IN  Nearest(Scored[k].payout[1], share.num, share.den)

NoPayoutData(data) ==
    \A r \in DOMAIN data :
        /\ data[r].total_payout = None
        /\ \A k \in 1..Len(data[r].participants) :
              /\ data[r].participants[k].score = None
              /\ data[r].participants[k].payout = None

\* C13: when the scoring of a payout run found at least one valid
\* participant, every participant with valid = TRUE in the run's round
\* record has a score and a payout assigned by the run, the score being the
\* similarity and the payout the position-weighted share, each rounded to 6
\* decimals, and total_payout is the resolved prize pool; the file holds
\* none of it until the persist step, which writes the whole record in one
\* write.
C13_PersistedRound ==
    (RunScored /\ ValidOnes # {}) =>
        /\ LET raw == Raw
           IN  \A k \in DOMAIN raw :
                  /\ Scored[k].score # None
                  /\ Scored[k].payout # None
                  /\ Nearest(Scored[k].score[1], raw[k], 10)
                  /\ PayoutIsShare(raw, k)
        /\ run.prize_pool # None
        /\ run.round_data[1][args.round_id].total_payout = run.prize_pool
        /\ pc = "persist" => (hist.persists = 0 /\ NoPayoutData(store))
        /\ pc = "done" =>
              /\ hist.persists = IF args.save_to_file THEN 1 ELSE 0
              /\ hist.last_write = "persist" => store = run.round_data[1]
              /\ ~args.save_to_file => NoPayoutData(store)

C13_Witness ==
    /\ caller = "prp"
    /\ pc = "done"
    /\ args.save_to_file
    /\ store = run.round_data[1]
    /\ Cardinality(ValidOnes) >= 2
    /\ \E k, j \in ValidOnes : Scored[k].payout[1] > Scored[j].payout[1]
    /\ store[args.round_id].total_payout = Some(10)

NoneValid(data) ==
    \A k \in 1..Len(Participants(data)) : ~Participants(data)[k].valid

\* C14: when no participant of the reloaded round has valid = TRUE, the
\* scoring step of a payout run hands nothing to the text embedder, so it
\* cannot fail on a guess, and a run that has finished has left the round
\* record as it was read (no score, payout or total_payout) and has not
\* performed the persist step.
C14_NoValidParticipants ==
    (caller = "prp" /\ run.validator # None /\ NoneValid(run.round_data[1])) =>
        /\ run.exit \in {"", "error"}
        /\ pc # "persist"
        /\ hist.persists = 0
        /\ NoPayoutData(run.round_data[1])
        /\ NoPayoutData(store)
        /\ run.exit = "" =>
              /\ pc = "done"
              /\ run.emb = Some(<<>>)

C14_Witness ==
    /\ caller = "prp"
    /\ pc = "done"
    /\ run.exit = ""
    /\ args.save_to_file
    /\ run.prompted
    /\ run.validator # None
    /\ Len(Scored) = 2
    /\ NoneValid(run.round_data[1])
    /\ NoPayoutData(store)

\* the run got past the prize pool check
PoolResolved ==
    /\ caller = "prp"
    /\ run.exit \notin {"no_file", "round_not_found", "no_prize_pool"}

StoredPool == hist.store0[args.round_id].prize_pool

\* C15: a payout run distributes the caller's prize_pool argument when one
\* is given and otherwise the prize_pool stored in the round record: that
\* amount is the pool of the payouts and the total_payout it assigns.  When
\* the round exists and neither is present the run fails, and it has then
\* not verified, not scored and not written anything.
C15_PrizePool ==
    caller = "prp" =>
        /\ PoolResolved =>
              /\ args.prize_pool # None => run.prize_pool = args.prize_pool
              /\ args.prize_pool = None =>
                    (run.prize_pool = StoredPool /\ StoredPool # None)
        /\ (RunScored /\ ValidOnes # {}) =>
              /\ run.round_data[1][args.round_id].total_payout
                    = run.prize_pool
              /\ LET raw == Raw
                 IN  \A k \in DOMAIN raw : PayoutIsShare(raw, k)
              /\ Cardinality(ValidOnes) = 1 =>
                    \A k \in ValidOnes : Some(Scored[k].payout[1])
                        = IF args.prize_pool # None THEN args.prize_pool
                          ELSE StoredPool
        /\ run.exit = "no_prize_pool" <=>
              /\ pc = "exited"
              /\ hist.store0 # <<>>
              /\ args.round_id \in DOMAIN hist.store0
              /\ args.prize_pool = None
              /\ StoredPool = None
        /\ run.exit = "no_prize_pool" =>
              /\ ver = NoVer
              /\ run.validator = None
              /\ run.emb = None
              /\ hist.appended = {} => store = hist.store0

C15_Witness ==
    /\ caller = "prp"
    /\ pc = "done"
    /\ args.prize_pool = None
    /\ StoredPool = Some(12)
    /\ store[args.round_id].total_payout = Some(12)
    /\ \E k \in ValidOnes : Scored[k].payout = Some(8)

\* ------------------------------------------- claims: stored payout sums
PayoutsStored == PayoutsReturned /\ cp_stored # <<>>

RegistryAt(c) == SubSeq(reg_versions, 1, reg_calls[c].entries)

\* the positions of the entries that list the round of call c
Listing(c) ==
    {k \in 1..reg_calls[c].entries :
        reg_calls[c].round_id \in reg_versions[k].applied_to_rounds}

FirstListing(c) == CHOOSE k \in Listing(c) : \A j \in Listing(c) : k <= j

\* C16: get_validator_for_round returns the variant of the first registry
\* entry that lists the round, the legacy validator when that entry has
\* use_baseline_adjustment false (or absent) and the baseline-adjusted one
\* when it is true, and the baseline-adjusted default when no entry lists
\* the round.
C16_FirstEntry ==
    \A c \in 1..Len(reg_calls) :
        reg_calls[c].validator =
            IF Listing(c) = {} THEN "ScoreValidator"
            ELSE IF reg_versions[FirstListing(c)].use_baseline_adjustment
                        = Some(TRUE)
                 THEN "ScoreValidator"
                 ELSE "LegacyScoreValidator"

\* C17: once a round is listed in the registry, appending version entries
\* does not change the validator resolved for it: two calls for the same
\* round, the earlier made when the round was already listed, return the
\* same variant.
C17_BindingImmutable ==
    \A c, d \in 1..Len(reg_calls) :
        (c < d /\ reg_calls[c].round_id = reg_calls[d].round_id
               /\ Listing(c) # {})
        => reg_calls[d].validator = reg_calls[c].validator

\* ------------------------------------------------ claims: the guess gate
\* empty or whitespace only (a missing guess counts as empty)
Blank(guess) ==
    guess = None \/ \A k \in 1..Len(guess[1]) : guess[1][k] \in {" "}

TooLong(guess) == guess # None /\ Len(guess[1]) > 300

Rejected == sc_result[1].score = 0 /\ sc_result[1].embedded = <<>>

Embedded ==
    /\ sc_result[1].embedded = <<sc_guess[1]>>
    /\ sc_result[1].score \in RawScores

C20_ValidOnlyIfVerified ==
    \A r \in DOMAIN store :
        \A k \in 1..Len(store[r].participants) :
            store[r].participants[k].valid =>
                /\ {"guess", "salt"} \subseteq DOMAIN store[r].participants[k]
                /\ Truthy(store[r].participants[k].guess)
                /\ Truthy(store[r].participants[k].salt)
                /\ generate_commitment(store[r].participants[k].guess[1],
                                       store[r].participants[k].salt[1]).value
                      = store[r].participants[k].commitment

\* ------------------------------------------- claims: the dump of verification
\* the call got to its loop: the file and the round exist and the round has
\* participants
ReachedLoop == RoundRead /\ Participants(ver.read[1]) # <<>>

\* C21 as claimed: every call of verify_round_commitments that has returned
\* has written the round back to the file.
C21_AsClaimed == ver.ret # None => hist.verify_writes >= 1

\* C21: a call of verify_round_commitments that found the file, the round
\* and at least one participant has dumped the round with the flags of its
\* loop exactly once when it returns, whether it returns true or false; a
\* call that returns early (no file, no such round, no participants)
\* returns false and has written nothing.
C21_VerifyWritesBack ==
    ver.ret # None =>
        /\ ReachedLoop =>
              /\ hist.verify_writes = 1
              /\ ver.out # None
              /\ hist.last_write = "verify" => store = ver.out[1]
        /\ ~ReachedLoop =>
              /\ ver.ret = Some(FALSE)
              /\ hist.verify_writes = 0
              /\ hist.last_write # "verify"
              /\ hist.appended = {} => store = hist.store0

C21_Witness ==
    /\ ver.ret = Some(FALSE)
    /\ ReachedLoop
    /\ hist.verify_writes = 1
    /\ hist.last_write = "verify"
    /\ store = ver.out[1]
    /\ store # hist.store0

\* ------------------------------------------------ claims: input validation
\* C22: calculate_payouts returns no payouts for a prize pool <= 0 or an
\* empty list of ranked results: such a call fails with an invalid-input
\* error instead of returning.
C22_InvalidInput ==
    (cp_pool <= 0 \/ cp_ranked = <<>>) => cp_out = <<>>

\* ------------------------------------------------ claims: baseline clamp
\* the call of BaselineAdjustedStrategy.calculate_score, with its baseline
\* features, has returned or raised
ScoreReturned == bl.out # <<>> /\ bl.baseline_features # None

RawSim == dot(bl.text_features, bl.image_features)
BaseSim == dot(bl.baseline_features[1], bl.image_features)

\* C23: BaselineAdjustedStrategy.calculate_score returns, never a negative
\* score; when the baseline similarity b is below 1 it returns exactly 0
\* for a raw similarity below b and (raw - b) / (1 - b) otherwise.
C23_BaselineClamp ==
    ScoreReturned =>
        /\ bl.out[1].error = ""
        /\ bl.out[1].value[1].num >= 0
        /\ bl.out[1].value[1].den >= 0
        /\ BaseSim < One =>
              /\ RawSim < BaseSim => bl.out[1].value[1] = Rat(0, 1)
              /\ RawSim >= BaseSim =>
                    /\ bl.out[1].value[1].den > 0
                    /\ bl.out[1].value[1].num * (One - BaseSim)
                          = (RawSim - BaseSim) * bl.out[1].value[1].den

C23_Witness ==
    /\ ScoreReturned
    /\ RawSim < 0
    /\ BaseSim > 0
    /\ BaseSim < One
    /\ bl.out[1].value[1] = Rat(0, 1)

\* ------------------------------------------- claims: process_all_rounds
\* the call of process_all_rounds has ended, by return or by sys.exit
BatchEnded == par.pc \in {"returned", "exited"} /\ par.file_exists

\* the rounds the call handed to process_round_payouts
Called == {par.calls[i].round_id : i \in 1..Len(par.calls)}

\* the rounds that, when the call started, had a participant, a prize pool
\* and no total_payout
Eligible ==
    {r \in DOMAIN par.file0 :
        /\ par.file0[r].participants # <<>>
        /\ par.file0[r].prize_pool # None
        /\ par.file0[r].total_payout = None}

\* score and payout of every participant of every round
ScoresOf(data) ==
    [r \in DOMAIN data |->
        [k \in 1..Len(data[r].participants) |->
            <<data[r].participants[k].score, data[r].participants[k].payout>>]]

Position(r) == CHOOSE k \in 1..Len(RoundOrder) : RoundOrder[k] = r

\* C24 as claimed: a call of process_all_rounds processes exactly the
\* rounds that have a participant, a prize pool and no total_payout, and a
\* call made after a call that returned with save_to_file changes no
\* stored score or payout.
C24_AsClaimed ==
    /\ BatchEnded => Called = Eligible
    /\ par.saved => ScoresOf(par.file) = ScoresOf(par.file0)

\* C24: process_all_rounds hands to process_round_payouts, in file order
\* and each once with its own stored prize pool, the rounds that have a
\* participant, a prize pool and no total_payout: all of them when it
\* returns, those up to the round whose processing ended the program when
\* it does not.  A round it does not process, so every round whose
\* total_payout is set, is stored unchanged.
C24_ProcessAllRounds ==
    /\ Called \subseteq Eligible
    /\ Len(par.calls) = Cardinality(Called)
    /\ \A i \in 1..Len(par.calls) :
          /\ par.calls[i].prize_pool
                = par.file0[par.calls[i].round_id].prize_pool
          /\ \A j \in 1..(i - 1) :
                Position(par.calls[j].round_id)
                    < Position(par.calls[i].round_id)
    /\ par.pc = "returned" => Called = Eligible
    /\ (par.pc = "exited" /\ par.file_exists) =>
          /\ par.exit # ""
          /\ par.calls # <<>>
          /\ Called = {r \in Eligible :
                          Position(r) <= Position(
                              par.calls[Len(par.calls)].round_id)}
    /\ par.file_exists =>
          \A r \in DOMAIN par.file0 :
              (r \notin Called \/ par.file0[r].total_payout # None)
                  => par.file[r] = par.file0[r]

C24_Witness ==
    /\ par.pc = "returned"
    /\ par.saved
    /\ par.file0["round1"].total_payout # None
    /\ par.file0["round1"].participants[1].payout = Some(12)
    /\ par.file["round1"] = par.file0["round1"]
    /\ Called = {"round2"}

\* ------------------------------------------- claims: the JsonDataAccess lock
AllDone == \A t \in 1..Len(jda.tasks) : jda.tasks[t].pc = "done"

Orders ==
    {o \in [1..Len(jda.tasks) -> 1..Len(jda.tasks)] :
        \A i, j \in 1..Len(jda.tasks) : o[i] = o[j] => i = j}

\* the file after the calls ran one after the other in order o, from the
\* k-th on, and what the calls returned
RECURSIVE InSequence(_, _, _, _)
InSequence(data, rets, o, k) ==
    IF k > Len(jda.tasks) THEN [file |-> data, rets |-> rets]
    ELSE LET call == jda.tasks[o[k]].call
         IN  InSequence(IF call_ret(data, call) THEN call_data(data, call)
                        ELSE data,
                        [rets EXCEPT ![o[k]] = call_ret(data, call)],
                        o, k + 1)

Serialised ==
    \E o \in Orders :
        LET seq == InSequence(jda.file0, [t \in 1..Len(jda.tasks) |-> FALSE],
                              o, 1)
        IN  /\ jda.file = seq.file
            /\ \A t \in 1..Len(jda.tasks) :
                  jda.tasks[t].ret = Some(seq.rets[t])

\* C25: concurrent calls of save_round, save_commitments,
\* update_participant and add_participant on one JsonDataAccess instance
\* all return, and the file and the return values are then those of the
\* calls run one after the other in some order.
C25_Serialised == [](AllDone => Serialised) /\ <>AllDone

C25_Witness ==
    /\ AllDone
    /\ Len(jda.tasks) = 2
    /\ jda.tasks[1].call.op = "add_participant"
    /\ jda.tasks[2].call.op = "update_participant"
    /\ jda.tasks[1].waited
    /\ jda.tasks[1].ret = Some(TRUE)
    /\ jda.tasks[2].ret = Some(TRUE)
    /\ Len(jda.file["round1"].participants) = 2
    /\ "guess" \in DOMAIN jda.file["round1"].participants[1]

\* ------------------------------------------------- claims: PlayerRegistry
\* the number of registered players
player_count == Cardinality(DOMAIN registry.players)

\* C26: after any sequence of add_player calls, prize_pool plus
\* platform_fees is entry_fee times the number of registered players and
\* platform_fees is platform_fee_percent of that total; the rejected calls
\* have changed neither.
C26_FeesMatchPlayers ==
    /\ registry.prize_pool + registry.platform_fees
          = registry.entry_fee * 100 * player_count
    /\ registry.platform_fees
          = registry.platform_fee_percent * registry.entry_fee * player_count

\* ------------------------------------- claims: what a payout run persists
\* the payout run has dumped its results and nothing was written since
Persisted == caller = "prp" /\ pc = "done" /\ hist.last_write = "persist"

\* C27: when process_round_payouts is called with a prize_pool argument
\* and save_to_file and has dumped its results, the stored round record
\* holds that argument as its prize_pool.
C27_PoolPersisted ==
    (Persisted /\ args.prize_pool # None /\ args.save_to_file) =>
        store[args.round_id].prize_pool = args.prize_pool

\* C28 as claimed: a call of process_round_payouts with save_to_file false
\* leaves the rounds file as it was when the call started, whatever
\* verify_commitments is and however the run ends.
C28_AsClaimed ==
    (caller = "prp" /\ ~args.save_to_file /\ hist.appended = {}) =>
        store = hist.store0

\* C28: a call of process_round_payouts with save_to_file false never
\* dumps its results; the only write it makes is the dump of verification
\* when verify_commitments is set, which changes valid flags only: the
\* file keeps its prize_pool, total_payout, scores and payouts, and with
\* verify_commitments false the call does not write at all.
C28_NoSave ==
    (caller = "prp" /\ ~args.save_to_file) =>
        /\ pc # "persist"
        /\ hist.persists = 0
        /\ hist.last_write # "persist"
        /\ hist.verify_writes <= 1
        /\ ~args.verify_commitments =>
              /\ hist.verify_writes = 0
              /\ hist.last_write # "verify"
        /\ hist.appended = {} =>
              /\ SameButValid(store, hist.store0)
              /\ ~args.verify_commitments => store = hist.store0

C28_Witness ==
    /\ caller = "prp"
    /\ pc = "done"
    /\ ~args.save_to_file
    /\ args.verify_commitments
    /\ hist.appended = {}
    /\ store # hist.store0
    /\ run.round_data[1][args.round_id].total_payout # None
    /\ store[args.round_id].total_payout = None

\* ------------------------------------------------------ claims: binding
\* C29: a revealed (guess, salt) pair with non-empty salt that the
\* validator accepts against a commitment is the pair the commitment was
\* made from, SHA-256 being collision-free on byte strings.
C29_Binding ==
    (Checked /\ Accepted) => gc_reveal = <<gc_message, gc_salt>>

\* ------------------------------------------- claims: ties in stored fields
\* the participants of the stored round
Stored == Participants(store)

\* C30 as claimed: after a payout run has persisted a round, two
\* participants of the round whose stored scores are equal have equal
\* stored payouts.
C30_AsClaimed ==
    Persisted =>
        \A k, j \in 1..Len(Stored) :
            Stored[k].score = Stored[j].score
                => Stored[k].payout = Stored[j].payout

\* C30: after a payout run has persisted a round, two valid participants
\* to whose guesses the embedder gave the same similarity, and two
\* participants without score, have equal stored payouts; of two valid
\* participants the one with the higher similarity never has the lower
\* stored payout.
C30_TiesStored ==
    Persisted =>
        /\ \A k, j \in ValidOnes :
              /\ RawScore(k) = RawScore(j)
                    => Stored[k].payout = Stored[j].payout
              /\ RawScore(k) > RawScore(j)
                    => Stored[k].payout[1] >= Stored[j].payout[1]
        /\ \A k, j \in 1..Len(Stored) :
              (Stored[k].score = None /\ Stored[j].score = None)
                  => (Stored[k].payout = None /\ Stored[j].payout = None)

C30_Witness ==
    /\ Persisted
    /\ \E k, j \in ValidOnes :
          /\ k # j
          /\ Stored[k].guess # Stored[j].guess
          /\ RawScore(k) = RawScore(j)
          /\ Stored[k].payout = Stored[j].payout
          /\ Stored[k].payout # None
    /\ \E k \in 1..Len(Stored) : Stored[k].score = None

====
